---- MODULE Spec2Model ----
(***************************************************************************)
(* FirehoseWriter (src/lib/firehose_writer.js, lines 1-164): a buffered    *)
(* writer that batches records, splits the buffer into chunks on flush and *)
(* delivers every chunk through a chain of _deliver invocations that       *)
(* retries per-record failures and call-level failures.                    *)
(*                                                                         *)
(* A record is modelled by its identity and its encoded byte length.  The  *)
(* promise chain of one chunk is the sequence `frames` of the nested       *)
(* _deliver invocations; a rejection is unwound through the .catch         *)
(* handlers of the enclosing invocations exactly as the chain             *)
(* .then(_retryFailedRecords).catch(_handleGeneralFailure) does.           *)
(***************************************************************************)
EXTENDS Integers, Sequences, FiniteSets, TLC

VARIABLES
    options,      \* the argument of the constructor
    config,       \* the fields the constructor sets (this.maxSize, ...), or its throw
    buffer,       \* this._buffer
    currentSize,  \* this._currentSize
    tasks,        \* one entry per chunk delivery chain (_deliver(chunk.records))
    flushes,      \* one entry per _flush that dispatched chunks (its Promise.all)
    pc,           \* "idle", or "put" between the append and the threshold check of put
    nextId,       \* identity given to the next accepted record
    lastCall      \* the last call of put / _flush and how it returned

vars == <<options, config, buffer, currentSize, tasks, flushes, pc, nextId, lastCall>>

----------------------------------------------------------------------------
(* Bounds of the model *)

\* largest encoded record length offered to put
MaxLen == 2
\* number of records put accepts in one behaviour of Spec
MaxPuts == 2
\* number of records put accepts in one behaviour of SpecBuffer
MaxBuffered == 3
\* largest options.maxRetries offered to the constructor
MaxRetriesOpt == 2
\* largest record list handed to a direct _deliver(records)
MaxRecs == 2
\* puts accepted after a construction in SpecConstruct
MaxConstructPuts == 1
\* records buffered when SpecChunks starts, hence its largest number of chunks
MaxChunks == 3
\* records buffered when SpecLive starts
MaxLiveChunks == 2

(* Program constants *)

AWS_MAX_RECORD_SIZE == 1024000
AWS_MAX_BATCH_RECORDS == 500
AWS_MAX_BATCH_SIZE == AWS_MAX_BATCH_RECORDS * AWS_MAX_RECORD_SIZE
DefaultMaxSize == 100000000
DefaultMaxCount == 500
DefaultMaxTimeout == 10000
DefaultMaxRetries == 10
DefaultRetryInterval == 5000
DefaultMaxBatchCount == 500

----------------------------------------------------------------------------
(* Helpers *)

RECURSIVE SumLen(_)
SumLen(s) == IF s = <<>> THEN 0 ELSE s[1].len + SumLen(Tail(s))

Ids(s) == {s[i].id : i \in DOMAIN s}

\* `a || b` on numbers: 0 (like an absent option) is falsy
OrDefault(a, b) == IF a = 0 THEN b ELSE a

----------------------------------------------------------------------------
(* constructor *)

\* options.X || default, lines 46-60
FieldsOf(o) ==
    [ streamName    |-> o.streamName,
      maxSize       |-> OrDefault(o.maxSize, DefaultMaxSize),
      maxCount      |-> OrDefault(o.maxCount, DefaultMaxCount),
      maxTimeout    |-> OrDefault(o.maxTimeout, DefaultMaxTimeout),
      maxRetries    |-> OrDefault(o.maxRetries, DefaultMaxRetries),
      retryInterval |-> OrDefault(o.retryInterval, DefaultRetryInterval),
      maxBatchCount |-> OrDefault(o.maxBatchCount, DefaultMaxBatchCount),
      maxBatchSize  |-> OrDefault(o.maxBatchSize, AWS_MAX_RECORD_SIZE * AWS_MAX_BATCH_RECORDS) ]

\* ConstructorError without the test of streamName
ConstructorErrorNoStreamName(o) ==
    LET f == FieldsOf(o) IN
    IF o.given = "null" THEN "options: can not be null or undefined"
    ELSE IF ~(f.maxSize <= AWS_MAX_BATCH_SIZE) THEN "maxSize: should be at most"
    ELSE IF ~(f.maxCount <= AWS_MAX_BATCH_RECORDS) THEN "maxCount: should be at most"
    ELSE IF ~(f.maxBatchCount <= AWS_MAX_BATCH_RECORDS) THEN "maxBatchCount: should be at most"
    ELSE IF ~(f.maxBatchSize <= AWS_MAX_BATCH_SIZE) THEN "maxBatchSize: should be at most"
    ELSE ""

\* the validateParam calls in the order the constructor makes them; "" when none
\* throws. An argument left out (undefined) becomes {} by the parameter default.
ConstructorError(o) ==
    LET f == FieldsOf(o) IN
    IF o.given = "null" THEN "options: can not be null or undefined"
    ELSE IF o.streamName = "" THEN "streamName: should be specified"
    ELSE IF ~(f.maxSize <= AWS_MAX_BATCH_SIZE) THEN "maxSize: should be at most"
    ELSE IF ~(f.maxCount <= AWS_MAX_BATCH_RECORDS) THEN "maxCount: should be at most"
    ELSE IF ~(f.maxBatchCount <= AWS_MAX_BATCH_RECORDS) THEN "maxBatchCount: should be at most"
    ELSE IF ~(f.maxBatchSize <= AWS_MAX_BATCH_SIZE) THEN "maxBatchSize: should be at most"
    ELSE ""

Constructor(o) == [threw |-> ConstructorError(o)] @@ FieldsOf(o)

Constructed == config.threw = ""

----------------------------------------------------------------------------
(* Delivery engine: _deliver / _retryFailedRecords / _handleGeneralFailure *)

NoOutcome == [kind |-> "none", errors |-> <<>>, canRetry |-> FALSE]
NoPending == [records |-> <<>>, retry |-> 0, via |-> "none"]
NoError == [truthy |-> FALSE, retryable |-> FALSE, message |-> <<>>]

\* the call-level errors the remote can reject with: {retryable: true},
\* {retryable: false}, and a falsy rejection value
RemoteErrors ==
    { [truthy |-> TRUE, retryable |-> TRUE, message |-> <<>>],
      [truthy |-> TRUE, retryable |-> FALSE, message |-> <<>>],
      [truthy |-> FALSE, retryable |-> FALSE, message |-> <<>>] }

\* new Error(`Failed to deliver a batch of ${records.length} to firehose stream
\* ${this.streamName} (${this.maxRetries} retries)`): an Error has no `retryable`
DeliveryExhausted(records) ==
    [truthy |-> TRUE, retryable |-> FALSE,
     message |-> <<Len(records), config.streamName, config.maxRetries>>]

\* const canRetry = !err || err.retryable
CanRetry(err) == ~err.truthy \/ err.retryable

\* the promise of the outermost _deliver resolves: every enclosing handler
\* returns normally, so the whole chain resolves
Resolved(t) == [t EXCEPT !.phase = "resolved"]

\* the promise of the _deliver invocation frames[k] rejects with err.
\*  - k = 1: it is the promise the caller of _deliver(records) holds;
\*  - frames[k] was invoked by _handleGeneralFailure (inside .catch of frames[k-1]):
\*    nothing catches it there, the promise of frames[k-1] rejects too;
\*  - frames[k] was invoked by _retryFailedRecords (inside .then of frames[k-1]):
\*    the .catch of frames[k-1] runs _handleGeneralFailure(records of k-1, err, retry + 1)
RECURSIVE Rejected(_, _, _)

\* HandleGeneralFailure that sends the whole chunk again
HandleGeneralFailureResendsChunk(t, k, err) ==
    IF CanRetry(err)
    THEN [t EXCEPT !.phase = "delaying",
                   !.frames = SubSeq(t.frames, 1, k),
                   !.pending = [records |-> t.orig,
                                retry |-> t.frames[k].retry + 1, via |-> "general"]]
    ELSE Resolved(t)

\* HandleGeneralFailure that retries whatever the error is
HandleGeneralFailureRetriesAnyError(t, k, err) ==
    [t EXCEPT !.phase = "delaying",
              !.frames = SubSeq(t.frames, 1, k),
              !.pending = [records |-> t.frames[k].records,
                           retry |-> t.frames[k].retry + 1, via |-> "general"]]

\* async _handleGeneralFailure(originalRecords, err, retry) as the .catch of frames[k]
\* calls it: with the records of frames[k] and its retry + 1
HandleGeneralFailure(t, k, err) ==
    IF CanRetry(err)
    THEN [t EXCEPT !.phase = "delaying",
                   !.frames = SubSeq(t.frames, 1, k),
                   !.pending = [records |-> t.frames[k].records,
                                retry |-> t.frames[k].retry + 1, via |-> "general"]]
    ELSE Resolved(t)

Rejected(t, k, err) ==
    IF k = 1 THEN [t EXCEPT !.phase = "rejected", !.error = err]
    ELSE IF t.frames[k].via = "general" THEN Rejected(t, k - 1, err)
    ELSE HandleGeneralFailure(t, k - 1, err)

\* Deliver with the budget test off by one (retry >= this.maxRetries)
DeliverOffByOne(t, records, retry, via, waited) ==
    LET frame == [records |-> records, retry |-> retry, via |-> via, waited |-> waited,
                  outcome |-> NoOutcome]
        pushed == [t EXCEPT !.frames = Append(t.frames, frame), !.pending = NoPending]
    IN  IF retry >= config.maxRetries
        THEN Rejected([pushed EXCEPT !.exhausted = TRUE], Len(pushed.frames),
                      DeliveryExhausted(records))
        ELSE [pushed EXCEPT !.phase = "calling", !.calls = t.calls + 1]

\* async _deliver(records, retry): the invocation becomes the next frame; `via`
\* is the handler that made it and `waited` whether that handler awaited
\* delay(this.retryInterval) first
Deliver(t, records, retry, via, waited) ==
    LET frame == [records |-> records, retry |-> retry, via |-> via, waited |-> waited,
                  outcome |-> NoOutcome]
        pushed == [t EXCEPT !.frames = Append(t.frames, frame), !.pending = NoPending]
    IN  IF retry > config.maxRetries
        THEN Rejected([pushed EXCEPT !.exhausted = TRUE], Len(pushed.frames),
                      DeliveryExhausted(records))
        ELSE [pushed EXCEPT !.phase = "calling", !.calls = t.calls + 1]

\* response.RequestResponses.map((x, i) => x.ErrorCode && originalRecords[i]).filter(Boolean)
RECURSIVE FailedFrom(_, _, _)
FailedFrom(originalRecords, errors, i) ==
    IF i > Len(errors) THEN <<>>
    ELSE IF errors[i] /\ i \in DOMAIN originalRecords
         THEN <<originalRecords[i]>> \o FailedFrom(originalRecords, errors, i + 1)
         ELSE FailedFrom(originalRecords, errors, i + 1)

\* FailedRecords with the test on ErrorCode inverted: keeps the delivered records
RECURSIVE DeliveredFrom(_, _, _)
DeliveredFrom(originalRecords, errors, i) ==
    IF i > Len(errors) THEN <<>>
    ELSE IF ~errors[i] /\ i \in DOMAIN originalRecords
         THEN <<originalRecords[i]>> \o DeliveredFrom(originalRecords, errors, i + 1)
         ELSE DeliveredFrom(originalRecords, errors, i + 1)

FailedRecordsInverted(originalRecords, errors) == DeliveredFrom(originalRecords, errors, 1)

FailedRecords(originalRecords, errors) == FailedFrom(originalRecords, errors, 1)

\* AllFailed that holds as soon as one record failed
AllFailedAny(failedRecords, originalRecords) == Len(failedRecords) > 0

\* "If all records fail wait for the interval"
AllFailed(failedRecords, originalRecords) == Len(failedRecords) = Len(originalRecords)

\* async _retryFailedRecords(originalRecords, response, retry), run by the .then of
\* the top frame
RetryFailedRecords(t, errors) ==
    LET k == Len(t.frames)
        originalRecords == t.frames[k].records
        failedRecords == FailedRecords(originalRecords, errors)
        seen == [t EXCEPT !.frames[k].outcome =
                              [kind |-> "response", errors |-> errors, canRetry |-> FALSE],
                          !.acked = t.acked \cup
                              {originalRecords[i].id : i \in {j \in DOMAIN originalRecords :
                                                              j \in DOMAIN errors /\ ~errors[j]}}]
    IN  IF Len(failedRecords) > 0
        THEN IF AllFailed(failedRecords, originalRecords)
             THEN [seen EXCEPT !.phase = "delaying",
                               !.pending = [records |-> failedRecords,
                                            retry |-> t.frames[k].retry + 1, via |-> "retry"]]
             ELSE Deliver(seen, failedRecords, t.frames[k].retry + 1, "retry", FALSE)
        ELSE Resolved(seen)

\* the .catch of the top frame after the remote call itself rejected
CallRejected(t, err) ==
    LET k == Len(t.frames)
        seen == [t EXCEPT !.frames[k].outcome =
                              [kind |-> "error", errors |-> <<>>, canRetry |-> CanRetry(err)]]
    IN  HandleGeneralFailure(seen, k, err)

\* _deliver(chunk.records) as _flush (or a direct caller) invokes it
NewTask(flushId, records) ==
    Deliver([flush |-> flushId, orig |-> records, frames |-> <<>>, phase |-> "new",
             pending |-> NoPending, calls |-> 0, acked |-> {}, exhausted |-> FALSE,
             error |-> NoError],
            records, 0, "initial", FALSE)

\* Promise.all over the delivery promises of one flush: rejects with the first
\* rejection, resolves once all have resolved; settled promises stay settled
PromiseAll(f, ts) ==
    IF f.state # "pending" THEN f
    ELSE IF \E i \in DOMAIN f.tasks : ts[f.tasks[i]].phase = "rejected"
         THEN [f EXCEPT !.state = "rejected"]
    ELSE IF \A i \in DOMAIN f.tasks : ts[f.tasks[i]].phase = "resolved"
         THEN [f EXCEPT !.state = "resolved"]
    ELSE f

Settle(ts) == [i \in DOMAIN flushes |-> PromiseAll(flushes[i], ts)]

----------------------------------------------------------------------------
(* Chunk splitter *)

\* SplitStep that puts the record that does not fit in place of the current chunk
SplitStepReplacesChunk(acc, record) ==
    LET recordSize == record.len
        chunk == acc[1]
        sizeFits == chunk.size + recordSize <= config.maxBatchSize
        countFits == Len(chunk.records) + 1 <= config.maxBatchCount
    IN  IF sizeFits /\ countFits
        THEN [acc EXCEPT ![1] = [records |-> Append(chunk.records, record),
                                 size |-> chunk.size + recordSize]]
        ELSE <<[records |-> <<record>>, size |-> recordSize]>> \o Tail(acc)

\* SplitStep that puts a fitting record at the front of the current chunk
SplitStepPrepends(acc, record) ==
    LET recordSize == record.len
        chunk == acc[1]
        sizeFits == chunk.size + recordSize <= config.maxBatchSize
        countFits == Len(chunk.records) + 1 <= config.maxBatchCount
    IN  IF sizeFits /\ countFits
        THEN [acc EXCEPT ![1] = [records |-> <<record>> \o chunk.records,
                                 size |-> chunk.size + recordSize]]
        ELSE <<[records |-> <<record>>, size |-> recordSize]>> \o acc

\* SplitStep that leaves out a record longer than maxBatchSize
SplitStepDropsOversized(acc, record) ==
    LET recordSize == record.len
        chunk == acc[1]
        sizeFits == chunk.size + recordSize <= config.maxBatchSize
        countFits == Len(chunk.records) + 1 <= config.maxBatchCount
    IN  IF sizeFits /\ countFits
        THEN [acc EXCEPT ![1] = [records |-> Append(chunk.records, record),
                                 size |-> chunk.size + recordSize]]
        ELSE IF recordSize > config.maxBatchSize THEN acc
        ELSE <<[records |-> <<record>>, size |-> recordSize]>> \o acc

\* SplitStep with a strict size comparison
SplitStepStrict(acc, record) ==
    LET recordSize == record.len
        chunk == acc[1]
        sizeFits == chunk.size + recordSize < config.maxBatchSize
        countFits == Len(chunk.records) + 1 <= config.maxBatchCount
    IN  IF sizeFits /\ countFits
        THEN [acc EXCEPT ![1] = [records |-> Append(chunk.records, record),
                                 size |-> chunk.size + recordSize]]
        ELSE <<[records |-> <<record>>, size |-> recordSize]>> \o acc

\* the reducer of _splitIntoChunks: acc[1] is the current chunk (acc[0] in the code)
SplitStep(acc, record) ==
    LET recordSize == record.len
        chunk == acc[1]
        sizeFits == chunk.size + recordSize <= config.maxBatchSize
        countFits == Len(chunk.records) + 1 <= config.maxBatchCount
    IN  IF sizeFits /\ countFits
        THEN [acc EXCEPT ![1] = [records |-> Append(chunk.records, record),
                                 size |-> chunk.size + recordSize]]
        ELSE <<[records |-> <<record>>, size |-> recordSize]>> \o acc

RECURSIVE Reduce(_, _)
Reduce(acc, records) ==
    IF records = <<>> THEN acc ELSE Reduce(SplitStep(acc, records[1]), Tail(records))

\* the initial accumulator [{ records: [], size: 0 }]
InitialChunk == [records |-> <<>>, size |-> 0]

SplitIntoChunks(records) == Reduce(<< InitialChunk >>, records)

----------------------------------------------------------------------------
(* put and _flush *)

NoRecord == [kind |-> "absent", len |-> 0]

\* the values a caller can hand to put: nothing, a string, a Buffer, a structured
\* value (whose JSON text has at least one byte)
PutInputs ==
    {NoRecord}
    \cup [kind : {"string", "buffer"}, len : 0..MaxLen]
    \cup [kind : {"object"}, len : 1..MaxLen]

\* !record: undefined, null and the empty string are falsy; a Buffer never is
Falsy(record) == record.kind = "absent" \/ (record.kind = "string" /\ record.len = 0)

\* PutError without the test of the encoded length
PutErrorNoSizeCheck(record) ==
    IF Falsy(record) THEN "record must be provided an can not be null or undefined"
    ELSE IF record.kind = "string" THEN "strings not supported"
    ELSE ""

\* the throws of put, in the order of lines 74-84; "" when put goes on to append
PutError(record) ==
    IF Falsy(record) THEN "record must be provided an can not be null or undefined"
    ELSE IF record.kind = "string" THEN "strings not supported"
    ELSE IF record.len > config.maxSize THEN "Record bigger then max size"
    ELSE ""

\* _oneOfThresholdsReached with strict comparisons
ThresholdsExceeded ==
    currentSize > config.maxSize \/ Len(buffer) > config.maxCount

\* _oneOfThresholdsReached that looks at the size only
SizeThresholdReached ==
    currentSize >= config.maxSize

\* _oneOfThresholdsReached
OneOfThresholdsReached ==
    currentSize >= config.maxSize \/ Len(buffer) >= config.maxCount

\* FlushBody without the early return of line 100
FlushBodyNoEmptyCheck ==
    LET chunks == SplitIntoChunks(buffer)
        n == Len(tasks)
        fid == Len(flushes) + 1
        ts == tasks \o [i \in 1..Len(chunks) |-> NewTask(fid, chunks[i].records)]
        f == [tasks |-> [i \in 1..Len(chunks) |-> n + i], state |-> "pending",
              captured |-> buffer, chunks |-> chunks]
    IN  /\ buffer' = <<>>
        /\ currentSize' = 0
        /\ tasks' = ts
        /\ flushes' = Append(flushes, PromiseAll(f, ts))

\* FlushBody that replaces the buffer and leaves _currentSize as it is
FlushBodyKeepsSize ==
    IF Len(buffer) = 0
    THEN UNCHANGED <<buffer, currentSize, tasks, flushes>>
    ELSE LET chunks == SplitIntoChunks(buffer)
             n == Len(tasks)
             fid == Len(flushes) + 1
             ts == tasks \o [i \in 1..Len(chunks) |-> NewTask(fid, chunks[i].records)]
             f == [tasks |-> [i \in 1..Len(chunks) |-> n + i], state |-> "pending",
                   captured |-> buffer, chunks |-> chunks]
         IN  /\ buffer' = <<>>
             /\ currentSize' = currentSize
             /\ tasks' = ts
             /\ flushes' = Append(flushes, PromiseAll(f, ts))

\* FlushBody that waits its turn: it does nothing while a chunk is in flight
FlushBodyExclusive ==
    IF Len(buffer) = 0 \/ \E i \in DOMAIN tasks : tasks[i].phase \in {"calling", "delaying"}
    THEN UNCHANGED <<buffer, currentSize, tasks, flushes>>
    ELSE LET chunks == SplitIntoChunks(buffer)
             n == Len(tasks)
             fid == Len(flushes) + 1
             ts == tasks \o [i \in 1..Len(chunks) |-> NewTask(fid, chunks[i].records)]
             f == [tasks |-> [i \in 1..Len(chunks) |-> n + i], state |-> "pending",
                   captured |-> buffer, chunks |-> chunks]
         IN  /\ buffer' = <<>>
             /\ currentSize' = 0
             /\ tasks' = ts
             /\ flushes' = Append(flushes, PromiseAll(f, ts))

\* the body of async _flush(), which runs to its return without yielding: the
\* chunks are split off, the buffer is replaced, and every _deliver(chunk.records)
\* has issued its remote call
FlushBody ==
    IF Len(buffer) = 0
    THEN UNCHANGED <<buffer, currentSize, tasks, flushes>>
    ELSE LET chunks == SplitIntoChunks(buffer)
             n == Len(tasks)
             fid == Len(flushes) + 1
             ts == tasks \o [i \in 1..Len(chunks) |-> NewTask(fid, chunks[i].records)]
             f == [tasks |-> [i \in 1..Len(chunks) |-> n + i], state |-> "pending",
                   captured |-> buffer, chunks |-> chunks]
         IN  /\ buffer' = <<>>
             /\ currentSize' = 0
             /\ tasks' = ts
             /\ flushes' = Append(flushes, PromiseAll(f, ts))

\* put(record) that throws: lines 74-84
PutThrows(record) ==
    /\ Constructed /\ pc = "idle"
    /\ PutError(record) # ""
    /\ lastCall' = [op |-> "put", result |-> "threw"]
    /\ UNCHANGED <<options, config, buffer, currentSize, tasks, flushes, pc, nextId>>

\* PutAppend that starts a fresh buffer with the record
PutAppendReplacesBuffer(record, limit) ==
    /\ Constructed /\ pc = "idle"
    /\ PutError(record) = ""
    /\ nextId <= limit
    /\ buffer' = <<[id |-> nextId, len |-> record.len]>>
    /\ currentSize' = currentSize + record.len
    /\ nextId' = nextId + 1
    /\ pc' = "put"
    /\ lastCall' = [op |-> "put", result |-> "appended"]
    /\ UNCHANGED <<options, config, tasks, flushes>>

\* PutAppend that assigns the record's length to _currentSize instead of adding it
PutAppendOverwritesSize(record, limit) ==
    /\ Constructed /\ pc = "idle"
    /\ PutError(record) = ""
    /\ nextId <= limit
    /\ buffer' = Append(buffer, [id |-> nextId, len |-> record.len])
    /\ currentSize' = record.len
    /\ nextId' = nextId + 1
    /\ pc' = "put"
    /\ lastCall' = [op |-> "put", result |-> "appended"]
    /\ UNCHANGED <<options, config, tasks, flushes>>

\* put(record) up to the threshold check: lines 74-87
PutAppend(record, limit) ==
    /\ Constructed /\ pc = "idle"
    /\ PutError(record) = ""
    /\ nextId <= limit
    /\ buffer' = Append(buffer, [id |-> nextId, len |-> record.len])
    /\ currentSize' = currentSize + record.len
    /\ nextId' = nextId + 1
    /\ pc' = "put"
    /\ lastCall' = [op |-> "put", result |-> "appended"]
    /\ UNCHANGED <<options, config, tasks, flushes>>

\* the rest of put: lines 89-92
PutCheck ==
    /\ Constructed /\ pc = "put"
    /\ IF OneOfThresholdsReached
       THEN FlushBody
       ELSE UNCHANGED <<buffer, currentSize, tasks, flushes>>
    /\ pc' = "idle"
    /\ lastCall' = [lastCall EXCEPT !.result = "returned"]
    /\ UNCHANGED <<options, config, nextId>>

\* a call of _flush() from outside put; the result "noop" is the promise of the
\* async function that returned at line 100, which is resolved already
FlushCall(trigger) ==
    /\ Constructed /\ pc = "idle"
    /\ FlushBody
    /\ lastCall' = [op |-> "flush", result |-> IF Len(buffer) = 0 THEN "noop" ELSE "dispatched"]
    /\ UNCHANGED <<options, config, pc, nextId>>

\* setInterval(() => this._flush(), this.maxTimeout)
TimerTick == FlushCall("timer")

\* process.on('beforeExit', () => this._flush())
BeforeExit == FlushCall("beforeExit")

\* a caller invoking flush itself and keeping the promise
CallerFlush == FlushCall("flush")

----------------------------------------------------------------------------
(* The remote collaborator answering a call, and the backoff timer *)

Top(t) == t.frames[Len(t.frames)]

\* putRecordBatch(params).promise() resolves with one outcome per submitted record
CallSucceeds(i) ==
    /\ Constructed /\ pc = "idle"
    /\ tasks[i].phase = "calling"
    /\ \E errors \in [1..Len(Top(tasks[i]).records) -> BOOLEAN] :
          tasks' = [tasks EXCEPT ![i] = RetryFailedRecords(tasks[i], errors)]
    /\ flushes' = Settle(tasks')
    /\ UNCHANGED <<options, config, buffer, currentSize, pc, nextId, lastCall>>

\* putRecordBatch(params).promise() rejects
CallFails(i) ==
    /\ Constructed /\ pc = "idle"
    /\ tasks[i].phase = "calling"
    /\ \E err \in RemoteErrors :
          tasks' = [tasks EXCEPT ![i] = CallRejected(tasks[i], err)]
    /\ flushes' = Settle(tasks')
    /\ UNCHANGED <<options, config, buffer, currentSize, pc, nextId, lastCall>>

\* DelayElapses in which a chunk that ends rejected takes the chunks of its flush
\* that are still in flight with it
DelayElapsesCancelsSiblings(i) ==
    /\ Constructed /\ pc = "idle"
    /\ tasks[i].phase = "delaying"
    /\ LET t == Deliver(tasks[i], tasks[i].pending.records, tasks[i].pending.retry,
                        tasks[i].pending.via, TRUE)
       IN  tasks' = [j \in DOMAIN tasks |->
                        IF j = i THEN t
                        ELSE IF /\ t.phase = "rejected"
                                /\ tasks[j].flush = t.flush
                                /\ tasks[j].phase \in {"calling", "delaying"}
                             THEN [tasks[j] EXCEPT !.phase = "rejected"]
                        ELSE tasks[j]]
    /\ flushes' = Settle(tasks')
    /\ UNCHANGED <<options, config, buffer, currentSize, pc, nextId, lastCall>>

\* delay(this.retryInterval) resolves and the waiting handler calls _deliver
DelayElapses(i) ==
    /\ Constructed /\ pc = "idle"
    /\ tasks[i].phase = "delaying"
    /\ tasks' = [tasks EXCEPT ![i] =
                    Deliver(tasks[i], tasks[i].pending.records, tasks[i].pending.retry,
                            tasks[i].pending.via, TRUE)]
    /\ flushes' = Settle(tasks')
    /\ UNCHANGED <<options, config, buffer, currentSize, pc, nextId, lastCall>>

\* The promise of a _flush() started by the timer (line 66) or by put (line 90) has
\* no handler. When it rejects, the runtime raises unhandledRejection, on which
\* Node 15 and later (the workflow builds with Node 20) end the process unless the
\* host installed a hook; a runtime that only warns never takes this step. Used
\* where every flush was started without a handler.
UnhandledRejection ==
    /\ Constructed /\ pc = "idle"
    /\ \E i \in DOMAIN flushes : flushes[i].state = "rejected"
    /\ pc' = "exited"
    /\ UNCHANGED <<options, config, buffer, currentSize, tasks, flushes, nextId, lastCall>>

\* Node emits 'beforeExit' each time the event loop has run empty (no remote call
\* and no backoff timer outstanding; the flush timer is unref'd), and the listener
\* of line 67 calls _flush(). A flush that dispatched chunks keeps the loop alive,
\* one that found the buffer empty leaves nothing to do and the process exits.
BeforeExitEmitted ==
    /\ Constructed /\ pc = "idle"
    /\ \A i \in DOMAIN tasks : tasks[i].phase \notin {"calling", "delaying"}
    /\ FlushBody
    /\ lastCall' = [op |-> "beforeExit",
                    result |-> IF Len(buffer) = 0 THEN "noop" ELSE "dispatched"]
    /\ pc' = IF Len(buffer) = 0 THEN "exited" ELSE "idle"
    /\ UNCHANGED <<options, config, nextId>>

----------------------------------------------------------------------------
(* Specifications *)

NoCall == [op |-> "none", result |-> ""]

OptionsOf(maxSize, maxCount, maxRetries, maxBatchCount, maxBatchSize) ==
    [ given |-> "object", streamName |-> "test", maxSize |-> maxSize, maxCount |-> maxCount,
      maxTimeout |-> 0, maxRetries |-> maxRetries, retryInterval |-> 0,
      maxBatchCount |-> maxBatchCount, maxBatchSize |-> maxBatchSize ]

\* the writer right after new FirehoseWriter(options); 0 stands for an option not given
Init ==
    /\ \E maxSize \in {0, 1, MaxLen + 1}, maxCount \in {0, 2},
          maxRetries \in {1}, maxBatchCount \in {0}, maxBatchSize \in {0, 1} :
          options = OptionsOf(maxSize, maxCount, maxRetries, maxBatchCount, maxBatchSize)
    /\ config = Constructor(options)
    /\ buffer = <<>>
    /\ currentSize = 0
    /\ tasks = <<>>
    /\ flushes = <<>>
    /\ pc = "idle"
    /\ nextId = 1
    /\ lastCall = NoCall

NextDeliver ==
    \/ \E i \in DOMAIN tasks : CallSucceeds(i)
    \/ \E i \in DOMAIN tasks : CallFails(i)
    \/ \E i \in DOMAIN tasks : DelayElapses(i)

Next ==
    \/ \E record \in PutInputs : PutThrows(record) \/ PutAppend(record, MaxPuts)
    \/ PutCheck
    \/ TimerTick
    \/ BeforeExit
    \/ CallerFlush
    \/ NextDeliver

Spec == Init /\ [][Next]_vars

\* _deliver(records) called directly on a writer constructed with maxRetries given
InitChain ==
    /\ \E maxRetries \in 1..MaxRetriesOpt : options = OptionsOf(0, 0, maxRetries, 0, 0)
    /\ config = Constructor(options)
    /\ buffer = <<>>
    /\ currentSize = 0
    /\ \E n \in 1..MaxRecs :
          /\ tasks = << NewTask(0, [i \in 1..n |-> [id |-> i, len |-> 1]]) >>
          /\ nextId = n + 1
    /\ flushes = <<>>
    /\ pc = "idle"
    /\ lastCall = NoCall

SpecChain == InitChain /\ [][NextDeliver]_vars

\* a writer on which _deliver(records) is called directly, as the delivery tests do
InitDeliver ==
    /\ \E maxRetries \in 0..MaxRetriesOpt : options = OptionsOf(0, 0, maxRetries, 0, 0)
    /\ config = Constructor(options)
    /\ buffer = <<>>
    /\ currentSize = 0
    /\ \E n \in 1..MaxRecs :
          /\ tasks = << NewTask(0, [i \in 1..n |-> [id |-> i, len |-> 1]]) >>
          /\ nextId = n + 1
    /\ flushes = <<>>
    /\ pc = "idle"
    /\ lastCall = NoCall

SpecDeliver == InitDeliver /\ [][NextDeliver]_vars

\* the accumulator on its own: puts and flushes while no remote call has returned yet
InitBuffer ==
    /\ \E maxSize \in {0, 1, MaxLen + 1}, maxCount \in {0, 2, 3},
          maxBatchCount \in {0, 1, 2}, maxBatchSize \in {0, 1, MaxLen} :
          options = OptionsOf(maxSize, maxCount, 0, maxBatchCount, maxBatchSize)
    /\ config = Constructor(options)
    /\ buffer = <<>>
    /\ currentSize = 0
    /\ tasks = <<>>
    /\ flushes = <<>>
    /\ pc = "idle"
    /\ nextId = 1
    /\ lastCall = NoCall

NextBuffer ==
    \/ \E record \in PutInputs : PutThrows(record) \/ PutAppend(record, MaxBuffered)
    \/ PutCheck
    \/ TimerTick
    \/ BeforeExit
    \/ CallerFlush

SpecBuffer == InitBuffer /\ [][NextBuffer]_vars

\* new FirehoseWriter(options) over options at, above and below the ceilings and with
\* and without a stream name, new FirehoseWriter() and new FirehoseWriter(null),
\* followed by a little use of the writer
InitConstruct ==
    /\ \E given \in {"object", "undefined", "null"}, streamName \in {"", "test"},
          maxSize \in {0, 1, 4000000, 4000001, AWS_MAX_BATCH_SIZE, AWS_MAX_BATCH_SIZE + 1},
          maxCount \in {0, 1, 500, 501},
          maxBatchCount \in {0, 1, 500, 501},
          maxBatchSize \in {0, 4000000, 4000001, AWS_MAX_BATCH_SIZE, AWS_MAX_BATCH_SIZE + 1} :
          options = IF given = "object"
                    THEN [OptionsOf(maxSize, maxCount, 0, maxBatchCount, maxBatchSize)
                             EXCEPT !.streamName = streamName]
                    ELSE [OptionsOf(0, 0, 0, 0, 0)
                             EXCEPT !.given = given, !.streamName = ""]
    /\ config = Constructor(options)
    /\ buffer = <<>>
    /\ currentSize = 0
    /\ tasks = <<>>
    /\ flushes = <<>>
    /\ pc = "idle"
    /\ nextId = 1
    /\ lastCall = NoCall

NextConstruct ==
    \/ \E record \in PutInputs : PutThrows(record) \/ PutAppend(record, MaxConstructPuts)
    \/ PutCheck
    \/ TimerTick
    \/ BeforeExit
    \/ CallerFlush

SpecConstruct == InitConstruct /\ [][NextConstruct]_vars

\* a writer that holds records put below the thresholds, as in the _flush tests;
\* it is flushed once and the chunks are delivered side by side
InitChunks ==
    /\ \E maxBatchCount \in {0, 1} : options = OptionsOf(0, 0, 1, maxBatchCount, 0)
    /\ config = Constructor(options)
    /\ \E n \in 1..MaxChunks :
          /\ buffer = [i \in 1..n |-> [id |-> i, len |-> 1]]
          /\ currentSize = n
          /\ nextId = n + 1
    /\ tasks = <<>>
    /\ flushes = <<>>
    /\ pc = "idle"
    /\ lastCall = [op |-> "put", result |-> "returned"]

NextChunks ==
    \/ CallerFlush
    \/ NextDeliver

SpecChunks == InitChunks /\ [][NextChunks]_vars

\* a writer whose flushes are started by put and by the timer only: nothing holds
\* the promises of these flushes
InitUnawaited ==
    /\ \E maxSize \in {0, 1} : options = OptionsOf(maxSize, 0, 1, 0, 0)
    /\ config = Constructor(options)
    /\ buffer = <<>>
    /\ currentSize = 0
    /\ tasks = <<>>
    /\ flushes = <<>>
    /\ pc = "idle"
    /\ nextId = 1
    /\ lastCall = NoCall

NextUnawaited ==
    \/ \E record \in PutInputs : PutThrows(record) \/ PutAppend(record, MaxPuts)
    \/ PutCheck
    \/ TimerTick
    \/ NextDeliver
    \/ UnhandledRejection

SpecUnawaited == InitUnawaited /\ [][NextUnawaited]_vars

\* a writer with maxSize 1, on which puts, flushes of every origin and deliveries
\* race: a 1-byte record flushes from inside put, an empty Buffer waits for the
\* timer, the caller, beforeExit, the count threshold or the next 1-byte record
InitRace ==
    /\ \E maxCount \in {0, 2} : options = OptionsOf(1, maxCount, 1, 0, 0)
    /\ config = Constructor(options)
    /\ buffer = <<>>
    /\ currentSize = 0
    /\ tasks = <<>>
    /\ flushes = <<>>
    /\ pc = "idle"
    /\ nextId = 1
    /\ lastCall = NoCall

SpecRace == InitRace /\ [][Next]_vars

\* a writer that holds records when the program has nothing left to do: the event
\* loop drains, the shutdown listener runs, and the chunks are delivered
NextShutdown ==
    \/ BeforeExitEmitted
    \/ NextDeliver

SpecShutdown == InitChunks /\ [][NextShutdown]_vars

\* SpecChunks on a smaller buffer, with every remote call answered and every
\* backoff wait elapsing in the end: a delivery step that stays possible is taken
InitLive ==
    /\ \E maxBatchCount \in {0, 1} : options = OptionsOf(0, 0, 1, maxBatchCount, 0)
    /\ config = Constructor(options)
    /\ \E n \in 1..MaxLiveChunks :
          /\ buffer = [i \in 1..n |-> [id |-> i, len |-> 1]]
          /\ currentSize = n
          /\ nextId = n + 1
    /\ tasks = <<>>
    /\ flushes = <<>>
    /\ pc = "idle"
    /\ lastCall = [op |-> "put", result |-> "returned"]

SpecLive == InitLive /\ [][NextChunks]_vars /\ WF_vars(NextDeliver)

----------------------------------------------------------------------------
(* Properties of the delivery engine *)

Terminal(t) == t.phase \in {"resolved", "rejected"}

\* C1: a delivery task that resolves has had every record of its chunk reported as
\* succeeded by the remote; a task that ends with a record unconfirmed is rejected.
NoSilentLoss ==
    \A i \in DOMAIN tasks :
        tasks[i].phase = "resolved" => Ids(tasks[i].orig) \subseteq tasks[i].acked

\* C2: after a call-level failure that is not retryable no further remote call is
\* made for the chunk (one call in all when it is the first attempt) and the task
\* ends rejected.
NonRetryableFailureIsFatal ==
    \A i \in DOMAIN tasks : \A k \in DOMAIN tasks[i].frames :
        LET o == tasks[i].frames[k].outcome IN
        (o.kind = "error" /\ ~o.canRetry) =>
            /\ k = Len(tasks[i].frames)
            /\ (k = 1 => tasks[i].calls = 1)
            /\ tasks[i].phase = "rejected"

\* every call answered so far failed at call level with a retryable error
OnlyRetryableFailures(t) ==
    \A k \in DOMAIN t.frames :
        LET o == t.frames[k].outcome IN
        \/ o.kind = "error" /\ o.canRetry
        \/ k = Len(t.frames) /\ o.kind = "none"

\* C3: while every remote call fails at call level with a retryable error, every
\* attempt carries the full record set, every re-submission follows a backoff wait,
\* a call is made exactly for the attempts 0..maxRetries, and the task then ends
\* rejected with DeliveryExhausted naming the record count, the stream and maxRetries
\* after maxRetries+1 calls.
RetryableFailureExhaustsBudget ==
    \A i \in DOMAIN tasks :
        LET t == tasks[i] IN
        OnlyRetryableFailures(t) =>
            /\ \A k \in DOMAIN t.frames :
                  /\ t.frames[k].records = t.orig
                  /\ t.frames[k].retry = k - 1
                  /\ (k > 1 => t.frames[k].waited)
            /\ t.calls = Cardinality({k \in DOMAIN t.frames :
                                          t.frames[k].retry <= config.maxRetries})
            /\ t.phase # "resolved"
            /\ t.phase = "rejected" =>
                  /\ t.calls = config.maxRetries + 1
                  /\ t.error = [truthy |-> TRUE, retryable |-> FALSE,
                                message |-> <<Len(t.orig), config.streamName,
                                              config.maxRetries>>]

\* the test's run: 2 records, default maxRetries 10, 11 calls, then the rejection
RetryableExhaustionReached ==
    \E i \in DOMAIN tasks :
        /\ OnlyRetryableFailures(tasks[i])
        /\ tasks[i].phase = "rejected"
        /\ Len(tasks[i].orig) = 2
        /\ tasks[i].calls = 11

\* C4: a delivery chain that reaches attempt > maxRetries ends rejected, and the
\* flush that owns the chunk is rejected with it.
ExhaustionReachesFlush ==
    \A i \in DOMAIN tasks :
        tasks[i].exhausted =>
            /\ tasks[i].phase = "rejected"
            /\ tasks[i].flush \in DOMAIN flushes =>
                  flushes[tasks[i].flush].state = "rejected"

\* the records whose positionally aligned outcome carries an error, in order
RECURSIVE WithError(_, _, _)
WithError(records, errors, n) ==
    IF n = 0 THEN <<>>
    ELSE IF errors[n] THEN Append(WithError(records, errors, n - 1), records[n])
    ELSE WithError(records, errors, n - 1)

\* C5: after a call that returned per-record outcomes, the next attempt carries
\* exactly the records whose outcome has an error, in their order, with the attempt
\* counter one higher; when no record failed there is no further attempt and the
\* chunk is done.
PerRecordRetry ==
    \A i \in DOMAIN tasks : \A k \in DOMAIN tasks[i].frames :
        LET t == tasks[i]
            f == t.frames[k]
            failed == WithError(f.records, f.outcome.errors, Len(f.records))
        IN  f.outcome.kind = "response" =>
                IF failed = <<>>
                THEN k = Len(t.frames) /\ t.phase = "resolved"
                ELSE \/ /\ k = Len(t.frames)
                        /\ t.phase = "delaying"
                        /\ t.pending.records = failed
                        /\ t.pending.retry = f.retry + 1
                     \/ /\ k < Len(t.frames)
                        /\ t.frames[k + 1].records = failed
                        /\ t.frames[k + 1].retry = f.retry + 1

\* the test's run: of two records the second failed and is submitted again alone
PartialRetryReached ==
    \E i \in DOMAIN tasks :
        /\ Len(tasks[i].frames) >= 2
        /\ Len(tasks[i].frames[1].records) = 2
        /\ tasks[i].frames[1].outcome.errors = <<FALSE, TRUE>>
        /\ tasks[i].frames[2].records = <<tasks[i].orig[2]>>
        /\ tasks[i].phase = "calling"

\* C6: an attempt is preceded by a backoff wait exactly when the attempt before it
\* failed at call level with a retryable error or returned with all of its records
\* failed; after a call in which only some records failed the next attempt follows
\* without a wait.
BackoffPolicy ==
    \A i \in DOMAIN tasks : \A k \in DOMAIN tasks[i].frames :
        k > 1 =>
            LET prev == tasks[i].frames[k - 1]
                o == prev.outcome
            IN  tasks[i].frames[k].waited <=>
                    \/ o.kind = "error" /\ o.canRetry
                    \/ /\ o.kind = "response"
                       /\ \A j \in DOMAIN prev.records : o.errors[j]

\* one chain with an immediate retry after a partial failure and a delayed retry
\* after a call in which every record failed
BothBackoffCasesReached ==
    \E i \in DOMAIN tasks :
        /\ Len(tasks[i].frames) >= 3
        /\ tasks[i].frames[1].outcome.errors = <<TRUE, FALSE>>
        /\ ~tasks[i].frames[2].waited
        /\ tasks[i].frames[2].outcome.errors = <<TRUE>>
        /\ tasks[i].frames[3].waited

\* C7: for every configured maxRetries >= 0 the remote calls made for one chunk
\* never exceed maxRetries + 1.
CallsWithinConfiguredBudget ==
    \A i \in DOMAIN tasks : tasks[i].calls <= options.maxRetries + 1

----------------------------------------------------------------------------
(* Properties of put *)

\* an absent record, a bare text value, or an encoding longer than the ceiling
Unacceptable(record) ==
    record.kind = "absent" \/ record.kind = "string" \/ record.len > config.maxSize

\* C8: a put of an absent record, of a string or of a record longer than the
\* single-record ceiling never appends; a put that throws leaves the buffer, the
\* running size, the flushes and the remote calls as they were, and no record
\* longer than the ceiling is ever in the buffer.
FailedPutLeavesBufferUntouched ==
    [][/\ \A record \in PutInputs :
             Unacceptable(record) => ~PutAppend(record, MaxBuffered)
       /\ (lastCall' # lastCall /\ lastCall'.result = "threw") =>
             UNCHANGED <<buffer, currentSize, tasks, flushes, pc>>
       /\ pc' = "put" => buffer'[Len(buffer')].len <= config.maxSize]_vars

\* a put has thrown on a buffer that holds records
FailedPutReached ==
    /\ lastCall = [op |-> "put", result |-> "threw"]
    /\ Len(buffer) >= 1
    /\ currentSize >= 1

\* C9: a successful put appends exactly its record at the end of the buffer and
\* adds the record's length to the running size; that is the state the threshold
\* check sees, and the state put returns in when no threshold is reached.
PutAppendsOneRecord ==
    [][/\ (pc = "idle" /\ pc' = "put") =>
             LET data == buffer'[Len(buffer')] IN
             /\ Len(buffer') = Len(buffer) + 1
             /\ buffer' = Append(buffer, data)
             /\ data.id \notin Ids(buffer)
             /\ currentSize' = currentSize + data.len
       /\ (pc = "put" /\ pc' = "idle"
             /\ currentSize < config.maxSize /\ Len(buffer) < config.maxCount) =>
             UNCHANGED <<buffer, currentSize>>]_vars

\* a put has returned below the thresholds with two records buffered
SecondPutReached ==
    /\ lastCall = [op |-> "put", result |-> "returned"]
    /\ Len(buffer) = 2
    /\ currentSize = 3

\* the records of the delivery tasks a step dispatched, as a set of identities
Dispatched(old, new) ==
    UNION {Ids(new[i].orig) : i \in (DOMAIN new) \ (DOMAIN old)}

\* C10: when the running size has reached maxSize or the record count maxCount
\* after the append, put flushes before it returns: the buffer is empty, the size 0,
\* and the flush captured and dispatched every buffered record, the new one
\* included; below both thresholds put flushes nothing.
ThresholdFlush ==
    [][(pc = "put" /\ pc' = "idle") =>
          IF currentSize >= config.maxSize \/ Len(buffer) >= config.maxCount
          THEN /\ buffer' = <<>>
               /\ currentSize' = 0
               /\ Len(flushes') = Len(flushes) + 1
               /\ flushes'[Len(flushes')].captured = buffer
               /\ Dispatched(tasks, tasks') = Ids(buffer)
          ELSE UNCHANGED <<buffer, currentSize, tasks, flushes>>]_vars

\* a put has returned after flushing a buffer of two records on the size threshold
ThresholdFlushReached ==
    /\ lastCall = [op |-> "put", result |-> "returned"]
    /\ buffer = <<>>
    /\ flushes # <<>>
    /\ Len(flushes[Len(flushes)].captured) = 2
    /\ SumLen(flushes[Len(flushes)].captured) = config.maxSize

----------------------------------------------------------------------------
(* Properties of _flush and of the chunk splitter *)

\* the delivery tasks a step started
NewTasks == (DOMAIN tasks') \ (DOMAIN tasks)

\* the places (task, position) at which the started tasks carry the record
PlacesOf(record) ==
    {<<i, j>> \in NewTasks \X (1..Len(buffer)) :
        j \in DOMAIN tasks'[i].orig /\ tasks'[i].orig[j] = record}

\* C11: a flush on a non-empty buffer captures the buffer and leaves an empty
\* buffer with running size 0 in the same step; it starts one delivery task per
\* chunk of the splitter, each at attempt 0 with its chunk's records, and every
\* captured record is in exactly one started task at exactly one position, the
\* started tasks carrying nothing else.
FlushDispatchesEveryRecordOnce ==
    [][(buffer # <<>> /\ Len(flushes') = Len(flushes) + 1) =>
          LET chunks == SplitIntoChunks(buffer)
              f == flushes'[Len(flushes')]
          IN  /\ f.captured = buffer
              /\ buffer' = <<>>
              /\ currentSize' = 0
              /\ Len(tasks') = Len(tasks) + Len(chunks)
              /\ f.tasks = [c \in DOMAIN chunks |-> Len(tasks) + c]
              /\ \A c \in DOMAIN chunks :
                    LET t == tasks'[Len(tasks) + c] IN
                    /\ t.orig = chunks[c].records
                    /\ Len(t.frames) = 1
                    /\ t.frames[1].retry = 0
                    /\ t.frames[1].records = chunks[c].records
                    /\ t.calls = 1
              /\ \A k \in DOMAIN buffer : Cardinality(PlacesOf(buffer[k])) = 1
              /\ \A i \in NewTasks : \A j \in DOMAIN tasks'[i].orig :
                    \E k \in DOMAIN buffer : tasks'[i].orig[j] = buffer[k]]_vars

\* a flush has captured three records and dispatched them in more than one chunk
MultiChunkFlushReached ==
    /\ flushes # <<>>
    /\ Len(flushes[Len(flushes)].captured) = 3
    /\ Len(flushes[Len(flushes)].tasks) >= 2
    /\ \A i \in DOMAIN flushes[Len(flushes)].tasks :
          tasks[flushes[Len(flushes)].tasks[i]].orig # <<>>
    /\ buffer = <<>>

\* C12: a flush on an empty buffer starts no delivery task (so makes no remote
\* call), records no flush and no chunk, leaves the buffer and the running size as
\* they were, and hands back a promise that is resolved already; no flush ever
\* captured an empty buffer.
EmptyFlushDoesNothing ==
    [][/\ (buffer = <<>> /\ (TimerTick \/ BeforeExit \/ CallerFlush)) =>
             /\ UNCHANGED <<buffer, currentSize, tasks, flushes, pc>>
             /\ lastCall' = [op |-> "flush", result |-> "noop"]
       /\ \A i \in DOMAIN flushes' : flushes'[i].captured # <<>>]_vars

\* a flush on an empty buffer, after an earlier flush dispatched records
EmptyFlushReached ==
    /\ lastCall = [op |-> "flush", result |-> "noop"]
    /\ buffer = <<>>
    /\ currentSize = 0
    /\ flushes # <<>>

\* the reference packer: one pass in input order, sealed chunks kept in the order
\* they were started, the current chunk initially empty
RECURSIVE GreedyPack(_, _, _, _, _)
GreedyPack(sealed, current, rest, maxChunkBytes, maxChunkRecords) ==
    IF rest = <<>> THEN Append(sealed, current)
    ELSE IF /\ SumLen(current) + rest[1].len <= maxChunkBytes
            /\ Len(current) + 1 <= maxChunkRecords
         THEN GreedyPack(sealed, Append(current, rest[1]), Tail(rest),
                         maxChunkBytes, maxChunkRecords)
         ELSE GreedyPack(Append(sealed, current), <<rest[1]>>, Tail(rest),
                         maxChunkBytes, maxChunkRecords)

\* the reference output: the packed chunks from the last started to the first, each
\* with the sum of its records' lengths
ReferenceChunks(records, maxChunkBytes, maxChunkRecords) ==
    LET packed == GreedyPack(<<>>, <<>>, records, maxChunkBytes, maxChunkRecords)
        n == Len(packed)
    IN  [c \in 1..n |-> [records |-> packed[n + 1 - c], size |-> SumLen(packed[n + 1 - c])]]

\* C13: the chunks of every flush are those of the reference single-pass greedy
\* packer run on the captured records with maxBatchSize and maxBatchCount: same
\* chunks, each size the sum of its records' lengths, last started chunk first.
SplitterMatchesGreedyPacker ==
    \A i \in DOMAIN flushes :
        flushes[i].chunks =
            ReferenceChunks(flushes[i].captured, config.maxBatchSize, config.maxBatchCount)

\* the test's shape: of three records the first two fill a chunk to maxBatchSize,
\* the third starts the chunk that is listed first
SplitBySizeReached ==
    \E i \in DOMAIN flushes :
        LET f == flushes[i] IN
        /\ Len(f.captured) = 3
        /\ Len(f.chunks) = 2
        /\ f.chunks[1] = [records |-> <<f.captured[3]>>, size |-> f.captured[3].len]
        /\ f.chunks[2].records = <<f.captured[1], f.captured[2]>>
        /\ f.chunks[2].size = config.maxBatchSize
        /\ config.maxBatchCount > 2

\* C14: every chunk a flush dispatched has a size of at most maxBatchSize and at
\* most maxBatchCount records.
ChunksWithinLimits ==
    \A i \in DOMAIN flushes : \A c \in DOMAIN flushes[i].chunks :
        LET t == tasks[flushes[i].tasks[c]] IN
        /\ SumLen(t.orig) <= config.maxBatchSize
        /\ flushes[i].chunks[c].size <= config.maxBatchSize
        /\ Len(t.orig) <= config.maxBatchCount

\* sealed with the current chunk added, when it holds a record
Emit(sealed, current) == IF current = <<>> THEN sealed ELSE Append(sealed, current)

\* greedy packing around oversized records: a record longer than maxChunkBytes
\* closes the chunk before it and stands alone; the others are packed greedily
RECURSIVE PackAround(_, _, _, _, _)
PackAround(sealed, current, rest, maxChunkBytes, maxChunkRecords) ==
    IF rest = <<>> THEN Emit(sealed, current)
    ELSE IF rest[1].len > maxChunkBytes
         THEN PackAround(Append(Emit(sealed, current), <<rest[1]>>), <<>>, Tail(rest),
                         maxChunkBytes, maxChunkRecords)
    ELSE IF /\ SumLen(current) + rest[1].len <= maxChunkBytes
            /\ Len(current) + 1 <= maxChunkRecords
         THEN PackAround(sealed, Append(current, rest[1]), Tail(rest),
                         maxChunkBytes, maxChunkRecords)
         ELSE PackAround(Emit(sealed, current), <<rest[1]>>, Tail(rest),
                         maxChunkBytes, maxChunkRecords)

\* the record lists of the chunks that hold a record, first started chunk first
RECURSIVE StartOrder(_)
StartOrder(chunks) ==
    IF chunks = <<>> THEN <<>>
    ELSE IF chunks[1].records = <<>> THEN StartOrder(Tail(chunks))
    ELSE Append(StartOrder(Tail(chunks)), chunks[1].records)

\* C15: when a flush captured a record longer than maxBatchSize, at any position,
\* the splitter put that record in exactly one chunk, a chunk holding it alone,
\* which was dispatched as it is, and packed the other records greedily around it.
OversizedRecordAlone ==
    \A i \in DOMAIN flushes :
        LET f == flushes[i] IN
        /\ \A k \in DOMAIN f.captured :
              f.captured[k].len > config.maxBatchSize =>
                  /\ Cardinality({c \in DOMAIN f.chunks :
                                    \E j \in DOMAIN f.chunks[c].records :
                                        f.chunks[c].records[j] = f.captured[k]}) = 1
                  /\ \E c \in DOMAIN f.chunks :
                        /\ f.chunks[c].records = <<f.captured[k]>>
                        /\ tasks[f.tasks[c]].orig = <<f.captured[k]>>
        /\ (\E k \in DOMAIN f.captured : f.captured[k].len > config.maxBatchSize) =>
              StartOrder(f.chunks) =
                  PackAround(<<>>, <<>>, f.captured, config.maxBatchSize,
                             config.maxBatchCount)

\* an oversized record came first, and the two records after it share a chunk
OversizedFirstReached ==
    \E i \in DOMAIN flushes :
        LET f == flushes[i] IN
        /\ Len(f.captured) = 3
        /\ f.captured[1].len > config.maxBatchSize
        /\ \E c \in DOMAIN f.chunks : f.chunks[c].records = <<f.captured[1]>>
        /\ \E c \in DOMAIN f.chunks : f.chunks[c].records = <<f.captured[2], f.captured[3]>>

----------------------------------------------------------------------------
(* Properties of the constructor *)

\* C16: with a stream name given, construction fails exactly when maxCount or
\* maxBatchCount is above 500 or maxBatchSize or maxSize is above 4,000,000.
ConstructionFailsAboveCeilings ==
    options.streamName # "" =>
        (~Constructed <=>
            \/ options.maxCount > 500
            \/ options.maxBatchCount > 500
            \/ options.maxBatchSize > 4000000
            \/ options.maxSize > 4000000)

----------------------------------------------------------------------------
(* Properties of the promise a flush returns *)

\* C17: the promise of a flush is settled only when every delivery task of the
\* flush is terminal; while one of them has a remote call or a backoff wait
\* outstanding the promise is pending.
FlushSettlesAfterAllTasks ==
    \A i \in DOMAIN flushes :
        flushes[i].state # "pending" =>
            \A c \in DOMAIN flushes[i].tasks : Terminal(tasks[flushes[i].tasks[c]])

----------------------------------------------------------------------------
(* Properties of chunks delivered side by side *)

\* C18: the chunks of a flush are delivered independently. A step that changes one
\* delivery task changes no other task, whatever the outcome (a fatal failure
\* included); every task counts its own attempts from 0; and a task with a call or
\* a backoff wait outstanding can take its next step whatever state its siblings
\* and the flush's promise are in.
ChunksAreIndependent ==
    [][/\ Len(tasks') >= Len(tasks)
       /\ \A i \in DOMAIN tasks :
             tasks'[i] # tasks[i] =>
                 \A j \in (DOMAIN tasks) \ {i} : tasks'[j] = tasks[j]
       /\ \A i \in DOMAIN tasks :
             /\ \A k \in DOMAIN tasks[i].frames : tasks[i].frames[k].retry = k - 1
             /\ tasks[i].phase = "calling" =>
                   ENABLED CallSucceeds(i) /\ ENABLED CallFails(i)
             /\ tasks[i].phase = "delaying" => ENABLED DelayElapses(i)
             /\ Terminal(tasks[i]) \/ tasks[i].phase \in {"calling", "delaying"}]_vars

\* one chunk of a flush has failed for good and rejected the flush's promise, a
\* second chunk has been confirmed since, and a third is in its backoff wait
SiblingsOutliveFailureReached ==
    \E i \in DOMAIN flushes :
        LET f == flushes[i] IN
        /\ Len(f.tasks) = 3
        /\ tasks[f.tasks[1]].phase = "rejected"
        /\ tasks[f.tasks[2]].phase = "resolved"
        /\ tasks[f.tasks[2]].calls = 2
        /\ tasks[f.tasks[3]].phase = "delaying"
        /\ f.state = "rejected"

----------------------------------------------------------------------------
(* Properties of put racing flushes and deliveries *)

\* the number of positions of s that hold the record with this identity
Occurrences(s, id) == Cardinality({k \in DOMAIN s : s[k].id = id})

RECURSIVE SumOver(_, _)
SumOver(f, n) == IF n = 0 THEN 0 ELSE f[n] + SumOver(f, n - 1)

\* C19: in every state, every record put has accepted is at exactly one place:
\* either once in the buffer and in no flush, or captured once by exactly one flush
\* and dispatched once in exactly one chunk; nothing else is buffered or dispatched.
EveryRecordInOneFlushAndChunk ==
    /\ \A id \in 1..(nextId - 1) :
          LET inBuffer == Occurrences(buffer, id)
              inFlushes == SumOver([i \in DOMAIN flushes |->
                                       Occurrences(flushes[i].captured, id)], Len(flushes))
              inChunks == SumOver([i \in DOMAIN tasks |->
                                      Occurrences(tasks[i].orig, id)], Len(tasks))
          IN  /\ inBuffer + inFlushes = 1
              /\ inChunks = inFlushes
    /\ Ids(buffer) \subseteq 1..(nextId - 1)
    /\ \A i \in DOMAIN tasks :
          /\ Ids(tasks[i].orig) \subseteq 1..(nextId - 1)
          /\ tasks[i].flush \in DOMAIN flushes
          /\ Ids(tasks[i].orig) \subseteq Ids(flushes[tasks[i].flush].captured)

\* two records went out in two flushes, the second put after the first record's
\* chunk had already been answered
TwoFlushesReached ==
    /\ Len(flushes) = 2
    /\ Ids(flushes[1].captured) = {1}
    /\ Ids(flushes[2].captured) = {2}
    /\ tasks[1].calls >= 2
    /\ lastCall = [op |-> "put", result |-> "returned"]

----------------------------------------------------------------------------
(* Properties of flushes nobody awaits *)

\* C20: a delivery failure of a flush started by put or by the timer stays inside
\* the writer: the put that started the flush returns normally, the step in which
\* the flush's promise is rejected leaves the buffer and the running size as they
\* were, and the process goes on, so that later puts and flushes can be made.
UnawaitedFailureIsContained ==
    [][/\ (pc = "put" /\ pc' # "put") =>
             (pc' = "idle" /\ lastCall' = [op |-> "put", result |-> "returned"])
       /\ (\E i \in DOMAIN flushes :
               flushes[i].state = "pending" /\ flushes'[i].state = "rejected") =>
             UNCHANGED <<buffer, currentSize, pc>>
       /\ pc' # "exited"]_vars

----------------------------------------------------------------------------
(* Properties of the timer and of flushes side by side *)

----------------------------------------------------------------------------
(* Properties of the shutdown listener *)

\* C22: one shutdown leads to one call of _flush by the shutdown listener: once
\* the listener has called _flush, the delivery work of that flush never leads to
\* a second call by the listener.
OneFlushPerShutdown ==
    [][lastCall.op = "beforeExit" => ~BeforeExitEmitted]_vars

----------------------------------------------------------------------------
(* Properties of the buffer *)

\* C23: in every state the running size is the sum of the lengths of the records
\* in the buffer; with an empty buffer, as after construction and after a flush,
\* it is 0.
SizeIsSumOfLengths ==
    /\ currentSize = SumLen(buffer)
    /\ buffer = <<>> => currentSize = 0

\* after a flush, a put that was accepted and a put that threw, the buffer holds
\* one record of two bytes
SizeAfterFlushAndPutsReached ==
    /\ flushes # <<>>
    /\ Len(buffer) = 1
    /\ currentSize = 2
    /\ lastCall = [op |-> "put", result |-> "threw"]

\* the records of a list of chunks, from the chunk listed last to the one listed first
RECURSIVE ConcatStartOrder(_)
ConcatStartOrder(chunks) ==
    IF chunks = <<>> THEN <<>>
    ELSE ConcatStartOrder(Tail(chunks)) \o chunks[1].records

\* records in the order put accepted them
InPutOrder(s) == \A k \in 1..(Len(s) - 1) : s[k].id < s[k + 1].id

\* C24: the buffer holds the records in the order of the put calls; so does every
\* chunk and every dispatched task; and the chunks of a flush, taken from the one
\* started first to the one started last, add up to the captured buffer.
OrderPreserved ==
    /\ InPutOrder(buffer)
    /\ \A i \in DOMAIN flushes :
          LET f == flushes[i] IN
          /\ InPutOrder(f.captured)
          /\ \A c \in DOMAIN f.chunks :
                /\ InPutOrder(f.chunks[c].records)
                /\ tasks[f.tasks[c]].orig = f.chunks[c].records
          /\ ConcatStartOrder(f.chunks) = f.captured

\* three records split by count: the first two share the chunk listed last
SplitByCountReached ==
    \E i \in DOMAIN flushes :
        LET f == flushes[i] IN
        /\ Len(f.captured) = 3
        /\ config.maxBatchCount = 2
        /\ Len(f.chunks) = 2
        /\ f.chunks[2].records = <<f.captured[1], f.captured[2]>>
        /\ f.chunks[1].records = <<f.captured[3]>>

\* C25: when the options are left out or null, or the stream name is missing or
\* empty, the constructor throws, and the writer's timer and shutdown listener do
\* not exist: no flush by either of them can happen, and nothing else does.
ConstructionFailsWithoutStream ==
    (options.given # "object" \/ options.streamName = "") =>
        /\ ~Constructed
        /\ config.threw = IF options.given = "null"
                          THEN "options: can not be null or undefined"
                          ELSE "streamName: should be specified"
        /\ ~ENABLED TimerTick
        /\ ~ENABLED BeforeExit
        /\ ~ENABLED BeforeExitEmitted
        /\ ~ENABLED Next
        /\ buffer = <<>> /\ tasks = <<>> /\ flushes = <<>> /\ lastCall = NoCall

\* options with thresholds in range and an empty stream name were refused
MissingStreamNameReached ==
    /\ options.given = "object"
    /\ options.streamName = ""
    /\ options.maxSize = 1
    /\ options.maxCount = 500
    /\ ~Constructed

\* C26: an option that is not given takes its default: maxSize 4,000,000, maxCount
\* 500, maxTimeout 10,000, maxBatchCount 500, maxBatchSize 4,000,000, maxRetries 10;
\* and the defaults pass the constructor's own ceilings.
DefaultsAsDocumented ==
    Constructed =>
        /\ options.maxSize = 0 => config.maxSize = 4000000
        /\ options.maxCount = 0 => config.maxCount = 500
        /\ options.maxTimeout = 0 => config.maxTimeout = 10000
        /\ options.maxBatchCount = 0 => config.maxBatchCount = 500
        /\ options.maxBatchSize = 0 => config.maxBatchSize = 4000000
        /\ options.maxRetries = 0 => config.maxRetries = 10
        /\ ConstructorError(OptionsOf(0, 0, 0, 0, 0)) = ""

----------------------------------------------------------------------------
(* Termination *)

\* every delivery promise and every flush's promise is settled
AllSettled ==
    /\ \A i \in DOMAIN tasks : Terminal(tasks[i])
    /\ \A i \in DOMAIN flushes : flushes[i].state # "pending"

\* when every remote call is answered and every backoff wait elapses, from some
\* point on every promise is settled, one way or the other
PromisesSettle == <>[]AllSettled

\* every delivery task has ended with all its records confirmed or as a failure
AllEndedConfirmedOrFailed ==
    \A i \in DOMAIN tasks :
        \/ tasks[i].phase = "resolved" /\ Ids(tasks[i].orig) \subseteq tasks[i].acked
        \/ tasks[i].phase = "rejected"

\* C27: when every remote call is answered and every backoff wait elapses, then
\* whatever the answers are, from some point on every delivery task has ended with
\* all its records confirmed or as a fatal failure, and the promise of every flush
\* is settled.
DeliveryTerminates == <>[](AllEndedConfirmedOrFailed /\ AllSettled)

----------------------------------------------------------------------------
(* Properties of the records a delivery chain submits *)

\* a is b with some elements left out
RECURSIVE IsSubseq(_, _)
IsSubseq(a, b) ==
    IF a = <<>> THEN TRUE
    ELSE IF b = <<>> THEN FALSE
    ELSE IF a[1] = b[1] THEN IsSubseq(Tail(a), Tail(b))
    ELSE IsSubseq(a, Tail(b))

\* the attempts of a chain start with the chunk and only narrow from there
Narrowed(t) ==
    /\ t.frames[1].records = t.orig
    /\ \A k \in 1..(Len(t.frames) - 1) :
          /\ IsSubseq(t.frames[k + 1].records, t.frames[k].records)
          /\ t.frames[k].outcome.kind = "error" =>
                t.frames[k + 1].records = t.frames[k].records
    /\ \A k \in DOMAIN t.frames : \A j \in DOMAIN t.frames[k].records :
          \E m \in DOMAIN t.orig : t.frames[k].records[j] = t.orig[m]
    /\ t.phase = "delaying" =>
          /\ IsSubseq(t.pending.records, t.frames[Len(t.frames)].records)
          /\ t.frames[Len(t.frames)].outcome.kind = "error" =>
                t.pending.records = t.frames[Len(t.frames)].records

\* C28: in a delivery chain the records of attempt k+1 are a subsequence of those
\* of attempt k, the same records after a call-level failure; every submitted
\* record is one of the chunk; and no step changes the chunk's record list, its
\* size, or the records of an attempt already made.
RecordSetOnlyNarrows ==
    [][\A i \in DOMAIN tasks :
          /\ Narrowed(tasks[i])
          /\ Narrowed(tasks'[i])
          /\ tasks'[i].orig = tasks[i].orig
          /\ SumLen(tasks'[i].orig) = SumLen(tasks[i].orig)
          /\ Len(tasks'[i].frames) >= Len(tasks[i].frames)
          /\ \A k \in DOMAIN tasks[i].frames :
                tasks'[i].frames[k].records = tasks[i].frames[k].records]_vars

\* two records, of which the first failed; it was sent alone, that call failed as
\* a whole, and it was sent alone again
NarrowedThenRepeatedReached ==
    \E i \in DOMAIN tasks :
        LET t == tasks[i] IN
        /\ Len(t.orig) = 2
        /\ Len(t.frames) = 3
        /\ t.frames[2].records = <<t.orig[1]>>
        /\ t.frames[2].outcome.kind = "error"
        /\ t.frames[3].records = <<t.orig[1]>>
        /\ t.phase = "calling"

\* the records the remote reported as succeeded in answer to attempt k
AckedIn(t, k) ==
    IF t.frames[k].outcome.kind = "response"
    THEN {t.frames[k].records[j].id :
            j \in {m \in DOMAIN t.frames[k].records :
                     m \in DOMAIN t.frames[k].outcome.errors /\ ~t.frames[k].outcome.errors[m]}}
    ELSE {}

\* C29: a record the remote reported as succeeded in one attempt of a chain is in
\* the records of no later attempt of that chain, and the batch of a call in
\* flight holds no record acknowledged so far, whichever handler started it.
AckedNeverResubmitted ==
    \A i \in DOMAIN tasks :
        LET t == tasks[i] IN
        /\ t.phase = "calling" => Ids(Top(t).records) \cap t.acked = {}
        /\ t.phase = "delaying" => Ids(t.pending.records) \cap t.acked = {}
        /\ \A k \in DOMAIN t.frames : \A m \in 1..(k - 1) :
              Ids(t.frames[k].records) \cap AckedIn(t, m) = {}

\* one of two records was acknowledged, the retry of the other ran out of budget,
\* and the exhaustion error went through the handler of the first attempt
ExhaustionAfterAckReached ==
    \E i \in DOMAIN tasks :
        LET t == tasks[i] IN
        /\ Len(t.orig) = 2
        /\ AckedIn(t, 1) # {}
        /\ Len(t.frames) >= 3
        /\ \A k \in 2..Len(t.frames) : t.frames[k].via = "retry"
        /\ t.exhausted
        /\ t.phase = "resolved"

----------------------------------------------------------------------------
(* Batches without records *)

\* C30: every chunk the splitter returns for a captured buffer holds at least one
\* record, and every delivery task a flush dispatches has a non-empty record list.
NoEmptyBatch ==
    /\ \A i \in DOMAIN flushes : \A c \in DOMAIN flushes[i].chunks :
          Len(flushes[i].chunks[c].records) >= 1
    /\ \A i \in DOMAIN tasks : Len(tasks[i].orig) >= 1

----------------------------------------------------------------------------
(* The buffer between calls *)

\* C31: whenever no put is executing, with maxSize and maxCount positive, the
\* buffer holds fewer than maxCount records and the running size is below maxSize.
BufferBelowThresholds ==
    (pc # "put" /\ config.maxSize > 0 /\ config.maxCount > 0) =>
        /\ Len(buffer) < config.maxCount
        /\ currentSize < config.maxSize

\* a record of exactly maxSize bytes was accepted and flushed by its put, and a
\* later put has returned leaving the buffer one record short of maxCount
OneShortOfThresholdReached ==
    /\ pc = "idle"
    /\ lastCall = [op |-> "put", result |-> "returned"]
    /\ Len(buffer) = config.maxCount - 1
    /\ flushes # <<>>
    /\ LET captured == flushes[Len(flushes)].captured
       IN  captured[Len(captured)].len = config.maxSize

====
